---- MODULE Spec2Model ----
(***************************************************************************)
(* goflow: the renderer (renderer/renderer.go) against a host document,    *)
(* and the project scaffolder (cmd/init.go, runInit) against a file system.*)
(*                                                                         *)
(* The host document is a heap of host nodes (nodes), addressed by their   *)
(* index; a js.Value that refers to a host node is that index, js.Null()   *)
(* is Null.  The syscall/js function registry that js.FuncOf fills is the  *)
(* sequence funcs.  A Go panic ends the program (pc = "panicked").         *)
(***************************************************************************)
EXTENDS Integers, Sequences, FiniteSets, TLC

VARIABLES
    r,          \* the Renderer struct: [container |-> js.Value]
    nodes,      \* the host heap: a sequence of host nodes
    funcs,      \* syscall/js registry of the Go functions wrapped by js.FuncOf
    pc,         \* position inside Render: "idle", "cleared", "built", "panicked"
    vnode,      \* the argument of the current (or most recent) Render call
    domNode,    \* the local domNode of Render
    renders,    \* number of Render calls entered
    mark,       \* heap size when the current Render call was entered
    prev,       \* the container's children when the current Render call was entered
    lastEvent,  \* the host event dispatched since the last Render, if any
    invoked,    \* the Go handlers that event invoked, in order
    cliPc,      \* position inside runInit: "start", "writing", "exited"
    dirExists,  \* whether the directory <project-name> exists
    dirFiles,   \* the files inside that directory
    stdout,     \* the messages runInit printed
    exitCode,   \* the exit status of the goflow process (NoExit while running)
    writeFailed,\* the file whose os.WriteFile failed, or ""
    removeAll,  \* the outcome of os.RemoveAll: "none", "ok", "failed"
    preexisting \* whether the directory existed when runInit started

rvars == <<r, nodes, funcs, pc, vnode, domNode, renders, mark, prev, lastEvent, invoked>>
cvars == <<cliPc, dirExists, dirFiles, stdout, exitCode, writeFailed, removeAll, preexisting>>
vars == <<r, nodes, funcs, pc, vnode, domNode, renders, mark, prev, lastEvent, invoked,
          cliPc, dirExists, dirFiles, stdout, exitCode, writeFailed, removeAll, preexisting>>

\* Bound on the number of Render calls of one run.
MaxRenders == 3

\* js.Null(): the js.Value that refers to no host node.
Null == 0

(***************************************************************************)
(* Virtual nodes (vdom.VNode as the renderer reads it).  Props and         *)
(* EventHandlers are Go maps: sets of <<key, value>> pairs with unique     *)
(* keys.  A handler is named by a string.                                  *)
(***************************************************************************)
VNodeText == "VNodeText"
VNodeElement == "VNodeElement"
VNodeOther == "VNodeOther"

\* The nil *vdom.VNode.
Nil == [Type |-> "nil", Tag |-> "", Text |-> "", Props |-> {}, EventHandlers |-> {},
        Children |-> <<>>]

TextNode(s) == [Type |-> VNodeText, Tag |-> "", Text |-> s, Props |-> {},
                EventHandlers |-> {}, Children |-> <<>>]

ElementNode(tag, props, handlers, children) ==
    [Type |-> VNodeElement, Tag |-> tag, Text |-> "", Props |-> props,
     EventHandlers |-> handlers, Children |-> children]

\* A node whose Type is neither VNodeText nor VNodeElement.
OtherNode == [Type |-> VNodeOther, Tag |-> "", Text |-> "", Props |-> {},
              EventHandlers |-> {}, Children |-> <<>>]

\* The trees given to Render: the README's components as virtual nodes.
HeadingTree == ElementNode("h1", {}, {}, <<TextNode("Welcome to GoFlow!")>>)

ButtonTree == ElementNode("button", {<<"class", "my-button">>},
                          {<<"click", "onClick">>}, <<TextNode("Click me!")>>)

InputTree == ElementNode("input", {<<"type", "text">>, <<"placeholder", "Enter text...">>},
                         {<<"change", "onChange">>}, <<>>)

MultiTree == ElementNode("input", {<<"type", "text">>},
                         {<<"change", "onChange">>, <<"focus", "onFocus">>,
                          <<"click", "onInputClick">>}, <<>>)

AppTree == ElementNode("div", {<<"class", "app">>}, {<<"click", "onAppClick">>},
                       <<HeadingTree, ButtonTree>>)

LargerAppTree == ElementNode("div", {<<"class", "app">>}, {<<"click", "onAppClick">>},
                             <<HeadingTree, ButtonTree, InputTree>>)

GapTree == ElementNode("div", {}, {}, <<TextNode("a"), OtherNode, ButtonTree>>)

EmptyTree == ElementNode("div", {}, {}, <<>>)

Trees == {Nil, TextNode("Inline text"), ButtonTree, MultiTree, AppTree, LargerAppTree,
          GapTree, EmptyTree, OtherNode}

(***************************************************************************)
(* The host document.                                                      *)
(***************************************************************************)
HostElement(tag, attrs) ==
    [nodeType |-> "element", tagName |-> tag, data |-> "", attributes |-> attrs,
     listeners |-> {}, childNodes |-> <<>>, parentNode |-> Null]

HostText(s) ==
    [nodeType |-> "text", tagName |-> "", data |-> s, attributes |-> {},
     listeners |-> {}, childNodes |-> <<>>, parentNode |-> Null]

\* index.html of a goflow project: <div id="app"> with its loading placeholder,
\* or the same container already emptied.
LoadingDocument ==
    << [HostElement("div", {<<"id", "app">>}) EXCEPT !.childNodes = <<2, 3>>],
       [HostElement("h2", {}) EXCEPT !.parentNode = 1],
       [HostElement("p", {}) EXCEPT !.parentNode = 1] >>

EmptyDocument == << HostElement("div", {<<"id", "app">>}) >>

Documents == {LoadingDocument, EmptyDocument}

ContainerIDs == {"app", "missing"}

\* document.getElementById
getElementById(heap, id) ==
    IF \E n \in DOMAIN heap : <<"id", id>> \in heap[n].attributes
    THEN CHOOSE n \in DOMAIN heap : <<"id", id>> \in heap[n].attributes
    ELSE Null

NewRenderer(heap, containerID) == [container |-> getElementById(heap, containerID)]

\* A truthiness test that lets a null child through.
TruthyAlways(v) == TRUE

\* js.Value.Truthy of a value that is a host node or null.
Truthy(v) == v # Null

\* A Set that is silently dropped on a null receiver.
ValueSetSilent(v) == FALSE

\* js.Value.Set panics when the receiver is not an object.
ValueSetPanics(v) == v = Null

\* The world a host call acts on: the heap, the function registry, and whether a
\* host call has thrown (which panics the Go caller).
World(heap, fs) == [nodes |-> heap, funcs |-> fs, panic |-> FALSE]

\* A clear that leaves the children where they are.
KeepInnerHTML(heap, el) == heap

\* element.innerHTML = "": every child is detached.
SetInnerHTMLEmpty(heap, el) ==
    [n \in DOMAIN heap |->
        IF n = el THEN [heap[n] EXCEPT !.childNodes = <<>>]
        ELSE IF heap[n].parentNode = el THEN [heap[n] EXCEPT !.parentNode = Null]
        ELSE heap[n]]

\* An insertion at the front instead of the end.
prependChild(w, parent, child) ==
    IF child = Null \/ parent = Null
    THEN [w EXCEPT !.panic = TRUE]
    ELSE [w EXCEPT !.nodes[parent].childNodes = <<child>> \o @,
                   !.nodes[child].parentNode = parent]

\* parent.appendChild(child); the host throws a TypeError when child is null.
appendChild(w, parent, child) ==
    IF child = Null \/ parent = Null
    THEN [w EXCEPT !.panic = TRUE]
    ELSE [w EXCEPT !.nodes[parent].childNodes = Append(@, child),
                   !.nodes[child].parentNode = parent]

\* element.setAttribute(key, value)
setAttribute(attrs, key, value) == {a \in attrs : a[1] # key} \cup {<<key, value>>}

RECURSIVE SetProps(_, _)
\* for key, value := range vnode.Props { element.Call("setAttribute", key, value) }
SetProps(attrs, props) ==
    IF props = {} THEN attrs
    ELSE LET p == CHOOSE q \in props : TRUE
         IN SetProps(setAttribute(attrs, p[1], p[2]), props \ {p})

\* One loop variable shared by every closure of the loop.
SharedLoopVariable(handlers, pair) == (CHOOSE q \in handlers : TRUE)[2]

\* The handler a listener closure calls: the loop variable of its own iteration
\* (Go 1.22 or later, the README's prerequisite: one variable per iteration).
CapturedHandler(handlers, pair) == pair[2]

RECURSIVE AddEventListeners(_, _, _, _)
\* for event, handler := range vnode.EventHandlers {
\*     element.Call("addEventListener", event, js.FuncOf(...handler()...)) }
AddEventListeners(w, el, handlers, rest) ==
    IF rest = {} THEN w
    ELSE LET p == CHOOSE q \in rest : TRUE
             fn == Len(w.funcs) + 1
             w1 == [w EXCEPT
                      !.funcs = Append(@, [handler |-> CapturedHandler(handlers, p)]),
                      !.nodes[el].listeners = @ \cup {[type |-> p[1], fn |-> fn]}]
         IN AddEventListeners(w1, el, handlers, rest \ {p})

RECURSIVE createDomNode(_, _)
RECURSIVE AppendChildren(_, _, _, _)
\* The result of createDomNode: the world after it and the js.Value it returns.
createDomNode(v, w) ==
    CASE v.Type = VNodeText ->
            [w |-> [w EXCEPT !.nodes = Append(@, HostText(v.Text))],
             node |-> Len(w.nodes) + 1]
      [] v.Type = VNodeElement ->
            LET el == Len(w.nodes) + 1
                w1 == [w EXCEPT !.nodes = Append(@, HostElement(v.Tag, SetProps({}, v.Props)))]
                w2 == AddEventListeners(w1, el, v.EventHandlers, v.EventHandlers)
            IN [w |-> AppendChildren(w2, el, v.Children, 1), node |-> el]
      [] OTHER -> [w |-> w, node |-> Null]

\* for _, child := range vnode.Children { ... if childNode.Truthy() { appendChild } }
AppendChildren(w, el, children, i) ==
    IF i > Len(children) \/ w.panic THEN w
    ELSE LET res == createDomNode(children[i], w)
         IN IF res.w.panic THEN res.w
            ELSE IF Truthy(res.node)
                 THEN AppendChildren(appendChild(res.w, el, res.node), el, children, i + 1)
                 ELSE AppendChildren(res.w, el, children, i + 1)

(***************************************************************************)
(* Host events.  The host delivers one event at a time, to the target and, *)
(* for an event that bubbles, to each ancestor in turn.                    *)
(***************************************************************************)
EventTypes == {"click", "change", "focus"}

\* The values the host reports as event.target.value.
HostValues == {"abc", ""}

NoEvent == [target |-> Null, type |-> "", value |-> ""]

\* click and change bubble, focus does not.
Bubbles(type) == type \in {"click", "change"}

RECURSIVE Ancestors(_, _)
\* The node and its ancestors, innermost first.
Ancestors(heap, n) ==
    IF n = Null THEN <<>> ELSE <<n>> \o Ancestors(heap, heap[n].parentNode)

PropagationPath(heap, target, type) ==
    IF Bubbles(type) THEN Ancestors(heap, target) ELSE <<target>>

RECURSIVE Descendants(_, _)
RECURSIVE DescendantsOfAll(_, _, _)
\* The nodes below n in the host tree.
Descendants(heap, n) == DescendantsOfAll(heap, heap[n].childNodes, 1)

DescendantsOfAll(heap, kids, i) ==
    IF i > Len(kids) THEN {}
    ELSE {kids[i]} \cup Descendants(heap, kids[i]) \cup DescendantsOfAll(heap, kids, i + 1)

\* The function js.FuncOf wraps: func(this, args) { handler(); return nil }.
\* It calls the handler with no argument and reads nothing from the event.
WrapperCall(closure, n, event) ==
    [node |-> n, type |-> event.type, handler |-> closure.handler, args |-> <<>>]

RECURSIVE ListenerCalls(_, _, _, _)
\* The calls the listeners ls of node n make for the event.
ListenerCalls(fs, n, ls, event) ==
    IF ls = {} THEN <<>>
    ELSE LET l == CHOOSE x \in ls : TRUE
         IN <<WrapperCall(fs[l.fn], n, event)>> \o ListenerCalls(fs, n, ls \ {l}, event)

RECURSIVE Deliver(_, _, _, _, _)
\* The calls made while the event travels along path, from position i on.
Deliver(heap, fs, path, i, event) ==
    IF i > Len(path) THEN <<>>
    ELSE ListenerCalls(fs, path[i],
                       {l \in heap[path[i]].listeners : l.type = event.type}, event)
         \o Deliver(heap, fs, path, i + 1, event)

\* The elements an event can be delivered to inside the container.
Targets ==
    IF r.container = Null THEN {}
    ELSE {n \in {r.container} \cup Descendants(nodes, r.container) :
            nodes[n].nodeType = "element"}

ContainerChildren == IF r.container = Null THEN <<>> ELSE nodes[r.container].childNodes

(***************************************************************************)
(* Renderer.Render, statement by statement.  No other operation runs while *)
(* pc is not "idle": Render is synchronous.                                *)
(***************************************************************************)
NoExit == -1

CliIdle ==
    /\ cliPc = "start" /\ dirExists = FALSE /\ dirFiles = {} /\ stdout = <<>>
    /\ exitCode = NoExit /\ writeFailed = "" /\ removeAll = "none" /\ preexisting = FALSE

Init ==
    /\ \E doc \in Documents, id \in ContainerIDs :
         /\ nodes = doc
         /\ r = NewRenderer(doc, id)
         /\ mark = Len(doc)
    /\ funcs = <<>>
    /\ pc = "idle"
    /\ vnode = Nil
    /\ domNode = Null
    /\ renders = 0
    /\ prev = <<>>
    /\ lastEvent = NoEvent
    /\ invoked = <<>>
    /\ CliIdle

\* Entry of Render and r.container.Set("innerHTML", "").
RenderClear(v) ==
    /\ pc = "idle"
    /\ renders < MaxRenders
    /\ renders' = renders + 1
    /\ vnode' = v
    /\ mark' = Len(nodes)
    /\ prev' = ContainerChildren
    /\ lastEvent' = NoEvent
    /\ invoked' = <<>>
    /\ domNode' = Null
    /\ IF ValueSetPanics(r.container)
       THEN pc' = "panicked" /\ nodes' = nodes
       ELSE pc' = "cleared" /\ nodes' = SetInnerHTMLEmpty(nodes, r.container)
    /\ UNCHANGED <<r, funcs>>
    /\ UNCHANGED cvars

\* if vnode != nil is false: Render returns.
RenderReturn ==
    /\ pc = "cleared"
    /\ vnode = Nil
    /\ pc' = "idle"
    /\ UNCHANGED <<r, nodes, funcs, vnode, domNode, renders, mark, prev, lastEvent, invoked>>
    /\ UNCHANGED cvars

\* domNode := r.createDomNode(vnode)
RenderBuild ==
    /\ pc = "cleared"
    /\ vnode # Nil
    /\ LET res == createDomNode(vnode, World(nodes, funcs))
       IN /\ nodes' = res.w.nodes
          /\ funcs' = res.w.funcs
          /\ domNode' = res.node
          /\ pc' = IF res.w.panic THEN "panicked" ELSE "built"
    /\ UNCHANGED <<r, vnode, renders, mark, prev, lastEvent, invoked>>
    /\ UNCHANGED cvars

\* r.container.Call("appendChild", domNode), then Render returns.
RenderAppend ==
    /\ pc = "built"
    /\ LET w == appendChild(World(nodes, funcs), r.container, domNode)
       IN IF w.panic
          THEN pc' = "panicked" /\ nodes' = nodes
          ELSE pc' = "idle" /\ nodes' = w.nodes
    /\ UNCHANGED <<r, funcs, vnode, domNode, renders, mark, prev, lastEvent, invoked>>
    /\ UNCHANGED cvars

\* The host dispatches an event to an element inside the container.
Dispatch(target, type, value) ==
    /\ pc = "idle"
    /\ target \in Targets
    /\ LET event == [target |-> target, type |-> type, value |-> value]
       IN /\ lastEvent' = event
          /\ invoked' = Deliver(nodes, funcs, PropagationPath(nodes, target, type), 1, event)
    /\ UNCHANGED <<r, nodes, funcs, pc, vnode, domNode, renders, mark, prev>>
    /\ UNCHANGED cvars

Render == (\E v \in Trees : RenderClear(v)) \/ RenderReturn \/ RenderBuild \/ RenderAppend

HostEvent == \E t \in DOMAIN nodes, type \in EventTypes, value \in HostValues :
                Dispatch(t, type, value)

Next == Render \/ HostEvent

Spec == Init /\ [][Next]_vars

(***************************************************************************)
(* goflow init <project-name>: runInit against the file system.            *)
(***************************************************************************)
\* filesToCreate
FilesToCreate == {"main.go", "index.html", "go.mod", "README.md", ".gitignore"}

\* What a directory that already exists may hold.
ForeignFiles == {"notes.txt"}

\* A Mkdir that accepts an existing directory, as os.MkdirAll does.
MkdirAllFails(exists, refused) == refused

\* os.Mkdir fails when the path exists, or when the file system refuses.
MkdirFails(exists, refused) == exists \/ refused

\* The files the loop has written: one Created message each.
Written == {f \in FilesToCreate : \E i \in DOMAIN stdout : stdout[i] = <<"Created", f>>}

CliInit ==
    /\ nodes = EmptyDocument
    /\ r = NewRenderer(EmptyDocument, "app")
    /\ mark = Len(EmptyDocument)
    /\ funcs = <<>>
    /\ pc = "idle"
    /\ vnode = Nil
    /\ domNode = Null
    /\ renders = 0
    /\ prev = <<>>
    /\ lastEvent = NoEvent
    /\ invoked = <<>>
    /\ cliPc = "start"
    /\ dirExists \in BOOLEAN
    /\ preexisting = dirExists
    /\ dirFiles \in (IF dirExists THEN SUBSET ForeignFiles ELSE {{}})
    /\ stdout = <<>>
    /\ exitCode = NoExit
    /\ writeFailed = ""
    /\ removeAll = "none"

\* os.Mkdir(projectName, 0755), and os.Exit(1) when it fails.
Mkdir(refused) ==
    /\ cliPc = "start"
    /\ IF MkdirFails(dirExists, refused)
       THEN /\ stdout' = <<<<"Initializing", "">>, <<"ErrorCreatingDirectory", "">>>>
            /\ exitCode' = 1
            /\ cliPc' = "exited"
            /\ UNCHANGED dirExists
       ELSE /\ stdout' = <<<<"Initializing", "">>>>
            /\ dirExists' = TRUE
            /\ cliPc' = "writing"
            /\ UNCHANGED exitCode
    /\ UNCHANGED <<dirFiles, writeFailed, removeAll, preexisting>>
    /\ UNCHANGED rvars

\* One iteration of the loop over filesToCreate (a Go map: any order):
\* os.WriteFile succeeds, or fails and the cleanup runs and the process exits.
\* os.RemoveAll's error is dropped: it may remove everything, or fail part-way.
WriteFile(f, ok, removed, left) ==
    /\ cliPc = "writing"
    /\ f \in FilesToCreate \ Written
    /\ IF ok
       THEN /\ dirFiles' = dirFiles \cup {f}
            /\ stdout' = Append(stdout, <<"Created", f>>)
            /\ UNCHANGED <<dirExists, cliPc, exitCode, writeFailed, removeAll>>
       ELSE /\ stdout' = Append(stdout, <<"ErrorCreatingFile", f>>)
            /\ writeFailed' = f
            /\ IF removed
               THEN removeAll' = "ok" /\ dirExists' = FALSE /\ dirFiles' = {}
               ELSE removeAll' = "failed" /\ dirExists' = TRUE /\ dirFiles' = left
            /\ exitCode' = 1
            /\ cliPc' = "exited"
    /\ UNCHANGED preexisting
    /\ UNCHANGED rvars

\* The loop is over: the success message, and the command returns.
Finish ==
    /\ cliPc = "writing"
    /\ Written = FilesToCreate
    /\ stdout' = Append(stdout, <<"Success", "">>)
    /\ exitCode' = 0
    /\ cliPc' = "exited"
    /\ UNCHANGED <<dirExists, dirFiles, writeFailed, removeAll, preexisting>>
    /\ UNCHANGED rvars

RunInitStep ==
    \/ \E refused \in BOOLEAN : Mkdir(refused)
    \/ \E f \in FilesToCreate, ok \in BOOLEAN, removed \in BOOLEAN :
          \E left \in SUBSET (dirFiles \cup {f}) : WriteFile(f, ok, removed, left)
    \/ Finish

CliSpec == CliInit /\ [][RunInitStep]_vars

(***************************************************************************)
(* The structural image of a virtual tree in the host heap.                *)
(***************************************************************************)
Usable(v) == v.Type \in {VNodeText, VNodeElement}

UsableChildren(v) == SelectSeq(v.Children, Usable)

Range(s) == {s[i] : i \in DOMAIN s}

Min(a, b) == IF a < b THEN a ELSE b

RECURSIVE Matches(_, _, _)
\* Host node d is the image of v: same kind, tag, attributes, text, and the
\* images of v's children in v's order.
Matches(heap, d, v) ==
    LET h == heap[d]
        kids == UsableChildren(v)
    IN CASE v.Type = VNodeText ->
              /\ h.nodeType = "text" /\ h.data = v.Text
              /\ h.attributes = {} /\ h.childNodes = <<>>
         [] v.Type = VNodeElement ->
              /\ h.nodeType = "element" /\ h.tagName = v.Tag
              /\ h.attributes = v.Props
              /\ Len(h.childNodes) = Len(kids)
              /\ \A i \in DOMAIN kids :
                    /\ heap[h.childNodes[i]].parentNode = d
                    /\ Matches(heap, h.childNodes[i], kids[i])
         [] OTHER -> FALSE

RECURSIVE Corr(_, _, _)
\* The pairs <<host node, virtual node>> met when walking d and v together.
Corr(heap, d, v) ==
    LET kids == UsableChildren(v)
        hk == heap[d].childNodes
    IN {<<d, v>>} \cup
       UNION {Corr(heap, hk[i], kids[i]) : i \in 1..Min(Len(hk), Len(kids))}

\* The nodes attached under the container, the container included.
Attached ==
    IF r.container = Null THEN {}
    ELSE {r.container} \cup Descendants(nodes, r.container)

Returned == pc = "idle" /\ renders > 0

\* C1: once Render(T) has returned for a tree T, the container's only child is
\* the structural image of T (tags, attributes, text, child order), and no
\* node of the content that was there before is still attached.
C1_RenderedImage ==
    (Returned /\ vnode # Nil) =>
        /\ Len(ContainerChildren) = 1
        /\ nodes[ContainerChildren[1]].parentNode = r.container
        /\ Matches(nodes, ContainerChildren[1], vnode)
        /\ \A n \in Range(prev) : n \notin Attached /\ nodes[n].parentNode = Null

\* Witness of C1: the larger tree was rendered over the rendered smaller one.
C1_Witness ==
    /\ Returned /\ vnode = LargerAppTree
    /\ Len(prev) = 1 /\ Matches(nodes, prev[1], AppTree)
    /\ Len(nodes[ContainerChildren[1]].childNodes) = 3

\* C2: once Render(nil) has returned, the container has no child, whatever it
\* held before (earlier renders or the document's own content).
C2_RenderNilEmpties ==
    (Returned /\ vnode = Nil) =>
        /\ ContainerChildren = <<>>
        /\ Attached = {r.container}
        /\ \A n \in Range(prev) : nodes[n].parentNode = Null

\* Witness of C2: Render(nil) has emptied a container that held children.
C2_Witness == Returned /\ vnode = Nil /\ prev # <<>> /\ ContainerChildren = <<>>

\* C3: an event delivered to a rendered element calls the handler bound to
\* that event name on that element exactly once, and no other handler of it.
C3_OwnHandlerOnce ==
    (Returned /\ lastEvent # NoEvent /\ vnode # Nil /\ ContainerChildren # <<>>) =>
        \A c \in Corr(nodes, ContainerChildren[1], vnode) :
            LET n == c[1]
                AtNode(e) == e.node = n
                calls == SelectSeq(invoked, AtNode)
                reached == n \in Range(PropagationPath(nodes, lastEvent.target,
                                                       lastEvent.type))
                bound == {p \in c[2].EventHandlers : p[1] = lastEvent.type}
            IN IF reached /\ bound # {}
               THEN /\ Len(calls) = 1
                    /\ \E p \in bound : calls[1].handler = p[2]
               ELSE calls = <<>>

\* Witness of C3: a change event on the element that carries three bindings.
C3_Witness ==
    /\ Returned /\ vnode = MultiTree /\ lastEvent.type = "change"
    /\ Len(invoked) = 1 /\ invoked[1].handler = "onChange"

\* The handlers bound somewhere in v.
RECURSIVE HandlersOf(_)
HandlersOf(v) ==
    {p[2] : p \in v.EventHandlers} \cup
    UNION {HandlersOf(v.Children[i]) : i \in DOMAIN v.Children}

\* C4: after a Render has returned, every listener function the renderer
\* allocated that is still registered belongs to a node of the current tree,
\* and an event inside the container calls only handlers of the current tree.
C4_NoListenerOutlivesRender ==
    Returned =>
        /\ \A fn \in DOMAIN funcs :
              \E n \in Attached : \E l \in nodes[n].listeners : l.fn = fn
        /\ \A i \in DOMAIN invoked : invoked[i].handler \in HandlersOf(vnode)

\* C5: a Renderer whose container did not resolve exists all the same, and its
\* first Render panics before any host node or listener is created.
C5_UnresolvedContainerFails ==
    (r.container = Null) =>
        /\ r \in [container : {Null}]
        /\ nodes \in Documents
        /\ funcs = <<>>
        /\ renders > 0 => pc = "panicked"

\* Witness of C5: Render of a tree on the unresolved container has panicked.
C5_Witness == r.container = Null /\ renders = 1 /\ pc = "panicked" /\ vnode = ButtonTree

\* C6: a child that is neither Text nor Element is left out of its parent's
\* host element, its siblings are there in their order, and Render does not fail.
C6_UnusableChildOmitted ==
    /\ pc = "panicked" => (r.container = Null \/ vnode.Type = VNodeOther)
    /\ (Returned /\ Usable(vnode)) =>
          /\ Len(ContainerChildren) = 1
          /\ \A c \in Corr(nodes, ContainerChildren[1], vnode) :
                LET hk == nodes[c[1]].childNodes
                    kids == UsableChildren(c[2])
                IN /\ Len(hk) = Len(kids)
                   /\ \A i \in DOMAIN kids :
                         /\ nodes[hk[i]].tagName = kids[i].Tag
                         /\ nodes[hk[i]].data = kids[i].Text

\* Witness of C6: the tree with an unusable middle child was rendered, and its
\* host element holds the two other children.
C6_Witness ==
    /\ Returned /\ vnode = GapTree /\ Len(ContainerChildren) = 1
    /\ Len(nodes[ContainerChildren[1]].childNodes) = 2

C8_ChangeCallbackGetsValue ==
    \A i \in DOMAIN invoked :
        invoked[i].type = "change" => invoked[i].args = <<lastEvent.value>>

\* C10: the container holds the document's own content (before the first
\* Render), nothing, or exactly the complete image of the new root; the new
\* subtree is complete and detached until the one append.
C10_ContainerShapes ==
    (r.container # Null) =>
        /\ \/ renders = 0 /\ nodes \in Documents
           \/ ContainerChildren = <<>>
           \/ /\ pc = "idle" /\ Len(ContainerChildren) = 1
              /\ Matches(nodes, ContainerChildren[1], vnode)
        /\ pc = "built" =>
              /\ ContainerChildren = <<>>
              /\ domNode # Null =>
                    (nodes[domNode].parentNode = Null /\ Matches(nodes, domNode, vnode))
        /\ Returned => Len(ContainerChildren) <= 1

\* Witness of C10: during a Render over earlier content the container is empty
\* while the complete new subtree waits detached.
C10_Witness ==
    /\ pc = "built" /\ prev # <<>> /\ vnode = LargerAppTree
    /\ ContainerChildren = <<>> /\ Matches(nodes, domNode, LargerAppTree)

Succeeded == \E i \in DOMAIN stdout : stdout[i] = <<"Success", "">>

\* C9 as stated: init fails when the directory exists or a write fails, after a
\* failed write the directory and its files are gone, and on success the
\* directory holds every template file.
C9_InitAsStated ==
    (cliPc = "exited") =>
        /\ (preexisting \/ writeFailed # "") => (exitCode = 1 /\ ~Succeeded)
        /\ writeFailed # "" => (~dirExists /\ dirFiles = {})
        /\ exitCode = 0 => (Succeeded /\ dirExists /\ dirFiles = FilesToCreate)

\* C9 amended: as stated, except that after a failed write the removal of the
\* directory is attempted, and the directory and its files are gone when that
\* removal succeeds.
C9_InitBestEffortCleanup ==
    (cliPc = "exited") =>
        /\ (preexisting \/ writeFailed # "") => (exitCode = 1 /\ ~Succeeded)
        /\ writeFailed # "" =>
              /\ removeAll # "none"
              /\ removeAll = "ok" => (~dirExists /\ dirFiles = {})
        /\ exitCode = 0 => (Succeeded /\ dirExists /\ dirFiles = FilesToCreate)

\* Witness of C9: a write failed after two files were written, and the cleanup
\* removed the directory.
C9_Witness ==
    /\ cliPc = "exited" /\ writeFailed # "" /\ removeAll = "ok"
    /\ Cardinality(Written) = 2 /\ ~dirExists /\ exitCode = 1

====
